---- MODULE Spec2Model ----
(***************************************************************************)
(* Vote casting and OTP verification of vote-securely-now.                 *)
(*                                                                         *)
(* The database tables (profiles, elections, candidates, votes,            *)
(* otp_requests, audit_logs) are the shared state.  The edge functions     *)
(* send-otp and verify-otp and the VotePage component are processes whose  *)
(* steps are the database round trips they await: everything between two   *)
(* awaits is local computation and belongs to one step.                    *)
(***************************************************************************)
EXTENDS Integers, Sequences, FiniteSets, TLC

VARIABLES
    profiles,      \* profiles.verified, by user id
    elections,     \* elections.status, by election id
    votes,         \* rows of public.votes, in insertion order
    otp_requests,  \* rows of public.otp_requests, in insertion order
    audit_logs,    \* rows of public.audit_logs, in insertion order
    now,           \* the clock, in minutes (Date.now() and the database's now())
    pages,         \* React state of each open VotePage, by browser session
    verifyCalls,   \* verify-otp invocations in flight, by worker
    sendCalls,     \* send-otp invocations in flight, by worker
    responses,     \* HTTP responses the edge functions have returned, in order
    receipts       \* React state of each open VoteReceiptPage, by browser session

vars == <<profiles, elections, votes, otp_requests, audit_logs, now,
          pages, verifyCalls, sendCalls, responses, receipts>>

(***************************************************************************)
(* Finite universe                                                         *)
(***************************************************************************)
Voters == {"v1", "v2"}
Elections == {"e1", "e2"}
Candidates == {"c1", "c2", "c3"}
Sessions == {"s1", "s2"}
Tokens == {"VT-A", "VT-B"}
Statuses == {"draft", "upcoming", "active", "ended"}

\* rows of public.candidates: the election that owns each candidate
candidates == [c \in Candidates |-> IF c = "c3" THEN "e2" ELSE "e1"]

(***************************************************************************)
(* public.votes and its constraints                                        *)
(***************************************************************************)
NoUserElectionConstraint(vs, row) == FALSE

\* UNIQUE (user_id, election_id)
ViolatesUserElection(vs, row) ==
    \E i \in 1..Len(vs) :
        vs[i].user_id = row.user_id /\ vs[i].election_id = row.election_id

\* .from('votes').select('id').eq('election_id', e).eq('user_id', u)
HasVoteRow(vs, u, e) ==
    \E i \in 1..Len(vs) : vs[i].user_id = u /\ vs[i].election_id = e

NoBallotTokenConstraint(vs, row) == FALSE

\* ballot_token TEXT NOT NULL UNIQUE
ViolatesBallotToken(vs, row) ==
    \E i \in 1..Len(vs) : vs[i].ballot_token = row.ballot_token

\* SQLSTATE the insert into votes ends with for the session of user uid:
\* 42501 when the row-level policy rejects it, 23503 for a foreign key,
\* 23505 for either unique constraint, "ok" when the row is stored
InsertVoteError(vs, row, uid) ==
    IF row.user_id # uid THEN "42501"
    ELSE IF row.election_id \notin Elections \/ row.candidate_id \notin Candidates
    THEN "23503"
    ELSE IF ViolatesUserElection(vs, row) \/ ViolatesBallotToken(vs, row)
    THEN "23505"
    ELSE "ok"

(***************************************************************************)
(* VotePage                                                                *)
(***************************************************************************)
\* the state of the component, its position in fetchData (fetchPc) and in
\* checkVerification (verifyPc), how its last cast ended (outcome) and, for the
\* properties, the sessions whose cast for the same voter and election was in
\* flight when this one's insert returned (rivals)
ClosedPage ==
    [open |-> FALSE, user |-> "null", electionId |-> "null",
     election |-> "null", isLoading |-> TRUE, isVerified |-> "null",
     hasVoted |-> FALSE, selectedCandidate |-> "null", isSubmitting |-> FALSE,
     fetchPc |-> "idle", verifyPc |-> "idle", ballotToken |-> "null",
     outcome |-> "none", rivals |-> {}]

\* what the component renders
View(pg) ==
    IF ~pg.open THEN "closed"
    ELSE IF pg.outcome = "receipt" THEN "receipt"
    ELSE IF pg.isLoading THEN "loading"
    ELSE IF pg.election = "null" THEN "nothing"
    ELSE IF pg.isVerified = "false" THEN "VerificationRequired"
    ELSE IF pg.election # "active"
    THEN (IF pg.election = "upcoming" THEN "NotStarted" ELSE "Ended")
    ELSE IF pg.hasVoted THEN "AlreadyVoted"
    ELSE "ballot"

\* the route /vote/:electionId is mounted by a signed-in user
OpenPage(s, u, e) ==
    /\ ~pages[s].open
    /\ pages' = [pages EXCEPT ![s] =
           [ClosedPage EXCEPT !.open = TRUE, !.user = u, !.electionId = e,
                              !.fetchPc = "election", !.verifyPc = "pending"]]
    /\ UNCHANGED <<receipts, profiles, elections, votes, otp_requests, audit_logs, now,
                   verifyCalls, sendCalls, responses>>

\* checkVerification: the profile lookup returns
CheckVerification(s) ==
    /\ pages[s].open /\ pages[s].verifyPc = "pending"
    /\ pages' = [pages EXCEPT ![s].verifyPc = "done",
                              ![s].isVerified =
                                  IF profiles[pages[s].user] THEN "true" ELSE "false"]
    /\ UNCHANGED <<receipts, profiles, elections, votes, otp_requests, audit_logs, now,
                   verifyCalls, sendCalls, responses>>

\* "Anyone authenticated can view active/upcoming elections": the statuses a
\* voter's select returns
VisibleToVoter(st) == st \in {"active", "upcoming", "ended"}

\* fetchData: the election (and its candidates) are read; an election the
\* select does not return sends the user to the dashboard
FetchElection(s) ==
    /\ pages[s].open /\ pages[s].fetchPc = "election"
    /\ pages' = [pages EXCEPT ![s] =
           IF VisibleToVoter(elections[pages[s].electionId])
           THEN [pages[s] EXCEPT !.fetchPc = "votes",
                                 !.election = elections[pages[s].electionId]]
           ELSE ClosedPage]
    /\ UNCHANGED <<receipts, profiles, elections, votes, otp_requests, audit_logs, now,
                   verifyCalls, sendCalls, responses>>

\* fetchData: the has-voted lookup returns, then the finally block
FetchHasVoted(s) ==
    /\ pages[s].open /\ pages[s].fetchPc = "votes"
    /\ pages' = [pages EXCEPT
           ![s].fetchPc = "done",
           ![s].isLoading = FALSE,
           ![s].hasVoted = HasVoteRow(votes, pages[s].user, pages[s].electionId)]
    /\ UNCHANGED <<receipts, profiles, elections, votes, otp_requests, audit_logs, now,
                   verifyCalls, sendCalls, responses>>

\* a candidate card of the ballot is clicked
SelectCandidate(s, c) ==
    /\ View(pages[s]) = "ballot"
    /\ ~pages[s].isSubmitting
    /\ candidates[c] = pages[s].electionId
    /\ pages[s].selectedCandidate # c
    /\ pages' = [pages EXCEPT ![s].selectedCandidate = c]
    /\ UNCHANGED <<receipts, profiles, elections, votes, otp_requests, audit_logs, now,
                   verifyCalls, sendCalls, responses>>

\* handleVoteSubmit up to its first await: generate_ballot_token() returns tok
SubmitVote(s, tok) ==
    /\ View(pages[s]) = "ballot"
    /\ ~pages[s].isSubmitting
    /\ pages[s].selectedCandidate # "null"
    /\ pages' = [pages EXCEPT ![s].isSubmitting = TRUE, ![s].ballotToken = tok]
    /\ UNCHANGED <<receipts, profiles, elections, votes, otp_requests, audit_logs, now,
                   verifyCalls, sendCalls, responses>>

VoteRowOtherToken(pg, t) ==
    [user_id |-> pg.user, election_id |-> pg.electionId,
     candidate_id |-> pg.selectedCandidate,
     ballot_token |-> CHOOSE tok \in Tokens : tok # pg.ballotToken,
     cast_at |-> t]

\* the row handleVoteSubmit inserts
VoteRow(pg, t) ==
    [user_id |-> pg.user, election_id |-> pg.electionId,
     candidate_id |-> pg.selectedCandidate, ballot_token |-> pg.ballotToken,
     cast_at |-> t]

\* what handleVoteSubmit makes of the insert's error code
CastOutcome(code) ==
    IF code = "ok" THEN "receipt"
    ELSE IF code = "23505" THEN "AlreadyVoted"
    ELSE "VoteFailed"

\* handleVoteSubmit: the insert into votes returns, then the finally block
InsertVote(s) ==
    /\ pages[s].open /\ pages[s].isSubmitting
    /\ LET row == VoteRow(pages[s], now)
           code == InsertVoteError(votes, row, pages[s].user)
       IN /\ votes' = IF code = "ok" THEN Append(votes, row) ELSE votes
          /\ pages' = [pages EXCEPT
                 ![s].isSubmitting = FALSE,
                 ![s].outcome = CastOutcome(code),
                 ![s].rivals = {t \in Sessions \ {s} :
                                   /\ pages[t].isSubmitting
                                   /\ pages[t].user = pages[s].user
                                   /\ pages[t].electionId = pages[s].electionId},
                 ![s].hasVoted = IF code = "23505" THEN TRUE ELSE pages[s].hasVoted]
    /\ UNCHANGED <<receipts, profiles, elections, otp_requests, audit_logs, now,
                   verifyCalls, sendCalls, responses>>

\* the user leaves the page (the buttons to the dashboard, or the receipt)
ClosePage(s) ==
    /\ pages[s].open /\ ~pages[s].isSubmitting
    /\ pages[s].fetchPc = "done" /\ pages[s].verifyPc = "done"
    /\ pages' = [pages EXCEPT ![s] = ClosedPage]
    /\ UNCHANGED <<receipts, profiles, elections, votes, otp_requests, audit_logs, now,
                   verifyCalls, sendCalls, responses>>

\* an administrator updates the status of an election
AdminSetStatus(e, st) ==
    /\ elections[e] # st
    /\ elections' = [elections EXCEPT ![e] = st]
    /\ UNCHANGED <<receipts, profiles, votes, otp_requests, audit_logs, now,
                   pages, verifyCalls, sendCalls, responses>>

(***************************************************************************)
(* VoteReceiptPage                                                         *)
(***************************************************************************)
\* the state of the component: the route's electionId, the token of the query
\* string, voteDetails (<<>>: null) and the toast it has shown
ClosedReceipt ==
    [open |-> FALSE, user |-> "null", electionId |-> "null",
     ballotToken |-> "null", isLoading |-> TRUE, voteDetails |-> <<>>,
     toast |-> "none"]

\* the route /vote/:electionId/receipt?token=tok is mounted by a signed-in user
OpenReceipt(s, u, e, tok) ==
    /\ ~receipts[s].open
    /\ receipts' = [receipts EXCEPT ![s] =
           [ClosedReceipt EXCEPT !.open = TRUE, !.user = u, !.electionId = e,
                                 !.ballotToken = tok]]
    /\ UNCHANGED <<profiles, elections, votes, otp_requests, audit_logs, now,
                   pages, verifyCalls, sendCalls, responses>>

SelectVoteByToken(vs, uid, e, tok) ==
    {i \in 1..Len(vs) : vs[i].user_id = uid /\ vs[i].ballot_token = tok}

\* .from('votes').select(...).eq('election_id', e).eq('user_id', uid)
\* .eq('ballot_token', tok) under "Users can view their own votes": the rows
\* returned to the session of user uid, as indices into vs
SelectVote(vs, uid, e, tok) ==
    {i \in 1..Len(vs) :
        /\ vs[i].user_id = uid
        /\ vs[i].election_id = e
        /\ vs[i].ballot_token = tok}

\* what setVoteDetails stores for a row (titles and names stand as the ids
\* they are looked up by)
VoteDetails(row, e) ==
    [ballot_token |-> row.ballot_token, cast_at |-> row.cast_at,
     election_title |-> e, candidate_name |-> row.candidate_id]

\* fetchVoteDetails: without a token the dashboard; the vote lookup, whose
\* .single() fails unless exactly one row is returned; the lookups of the
\* titles; the finally block
FetchVoteDetails(s) ==
    /\ receipts[s].open /\ receipts[s].isLoading
    /\ LET pg == receipts[s]
           found == SelectVote(votes, pg.user, pg.electionId, pg.ballotToken)
       IN receipts' = [receipts EXCEPT ![s] =
              IF pg.ballotToken = "null" THEN ClosedReceipt
              ELSE IF Cardinality(found) # 1
              THEN [ClosedReceipt EXCEPT !.toast = "Vote not found"]
              ELSE [pg EXCEPT !.isLoading = FALSE,
                              !.voteDetails =
                                  <<VoteDetails(votes[CHOOSE i \in found : TRUE],
                                                pg.electionId)>>]]
    /\ UNCHANGED <<profiles, elections, votes, otp_requests, audit_logs, now,
                   pages, verifyCalls, sendCalls, responses>>

\* the user leaves the receipt
CloseReceipt(s) ==
    /\ receipts[s].open /\ ~receipts[s].isLoading
    /\ receipts' = [receipts EXCEPT ![s] = ClosedReceipt]
    /\ UNCHANGED <<profiles, elections, votes, otp_requests, audit_logs, now,
                   pages, verifyCalls, sendCalls, responses>>

(***************************************************************************)
(* Requests of a signed-in user to the tables, as the row-level policies   *)
(* admit them                                                              *)
(***************************************************************************)
\* an insert into votes by the session of user uid
PostVote(uid, u, e, c, tok) ==
    LET row == [user_id |-> u, election_id |-> e, candidate_id |-> c,
                ballot_token |-> tok, cast_at |-> now]
    IN /\ votes' = IF InsertVoteError(votes, row, uid) = "ok"
                   THEN Append(votes, row) ELSE votes
       /\ UNCHANGED <<profiles, elections, otp_requests, audit_logs, now,
                      pages, verifyCalls, sendCalls, responses, receipts>>

\* "Users can update their own profile": FOR UPDATE USING (auth.uid() = id)
CanUpdateProfile(uid, id) == uid = id

\* an update of profiles.verified of row id by the session of user uid
UpdateProfile(uid, id, v) ==
    /\ profiles' = IF CanUpdateProfile(uid, id)
                   THEN [profiles EXCEPT ![id] = v] ELSE profiles
    /\ UNCHANGED <<elections, votes, otp_requests, audit_logs, now,
                   pages, verifyCalls, sendCalls, responses, receipts>>

(***************************************************************************)
(* One-time passcodes                                                      *)
(***************************************************************************)
VerifyWorkers == {"w1", "w2"}
SendWorkers == {"i1", "i2"}
Channels == {"email", "sms", "both"}

\* passcodes generateOtp can return (strings of six decimal digits)
Code1 == <<"1", "2", "3", "4", "5", "6">>
Code2 == <<"6", "5", "4", "3", "2", "1">>
Codes == {Code1, Code2}
\* strings a client can post as otp: the passcodes, a malformed one, none
OtpInputs == Codes \cup {<<"1", "2", "3", "4", "5", "a">>, <<>>}
Digits == {"0", "1", "2", "3", "4", "5", "6", "7", "8", "9"}

\* 5 * 60 * 1000 ms, in minutes
OtpTtl == 5
\* 60 * 60 * 1000 ms, in minutes
RateWindow == 60
\* most rows of a user inside the window
RateLimit == 5
\* max_attempts of a new row
MaxAttempts == 3

ValidFormatAnyChar(otp) == Len(otp) = 6

\* /^\d{6}$/.test(otp)
ValidFormat(otp) ==
    Len(otp) = 6 /\ \A i \in 1..Len(otp) : otp[i] \in Digits

\* hashOtp: SHA-256 of the passcode followed by the service-role key, in hex
hashOtp(otp) == <<"sha256", otp \o <<"SERVICE_ROLE_KEY">>>>

\* rows of user u, as indices into otp_requests
RowsOf(u) == {i \in 1..Len(otp_requests) : otp_requests[i].user_id = u}

EarliestUnverified(u) ==
    LET open == {i \in RowsOf(u) : ~otp_requests[i].verified}
    IN {i \in open : \A j \in open : i <= j}

\* .eq("user_id", userId).eq("verified", false).order("created_at", desc)
\* .limit(1): the row .single() returns, as a set (empty: no row).  created_at
\* is finer than the model's minutes: of two rows of the same minute the one
\* inserted later is the later one
LatestUnverified(u) ==
    LET open == {i \in RowsOf(u) : ~otp_requests[i].verified}
    IN {i \in open : \A j \in open :
           \/ otp_requests[j].created_at < otp_requests[i].created_at
           \/ otp_requests[j].created_at = otp_requests[i].created_at /\ j <= i}

AttemptsExceededStrict(req) == req.attempts > req.max_attempts

IsExpiredInverted(req, t) == req.expires_at > t

\* new Date(otpRequest.expires_at) < new Date()
IsExpired(req, t) == req.expires_at < t

\* otpRequest.attempts >= otpRequest.max_attempts
AttemptsExceeded(req) == req.attempts >= req.max_attempts

RemainingAttemptsStale(req) == req.max_attempts - req.attempts

\* otpRequest.max_attempts - otpRequest.attempts - 1
RemainingAttempts(req) == req.max_attempts - req.attempts - 1

\* a row of audit_logs (id, ip_address and created_at are not modelled)
AuditRow(type, u, details) ==
    [event_type |-> type, user_id |-> u, details |-> details]

InsertAuditLatestOnly(logs, row, ok) == IF ok THEN <<row>> ELSE logs

\* .from("audit_logs").insert(row): ok tells whether the database stored it
InsertAudit(logs, row, ok) == IF ok THEN Append(logs, row) ELSE logs

AfterAuditThrows(resp, ok) ==
    IF ok THEN resp
    ELSE [resp EXCEPT !.status = 500, !.body = "Internal error"]

\* the handlers await the audit insert and do not read the error it returns
\* (the client does not throw): the response they go on to return after an
\* insert that ended as ok
AfterAudit(resp, ok) == resp

IdleVerify == [pc |-> "idle", userId |-> "null", otp |-> <<>>, id |-> 0, otpRequest |-> "null"]

\* a response of verify-otp; id is the otp_requests row the call selected (0:
\* none), remaining the remainingAttempts of the body (-1: absent)
VerifyResponse(u, otp, id, status, body, remaining) ==
    [fn |-> "verify-otp", userId |-> u, otp |-> otp, id |-> id,
     status |-> status, body |-> body, remainingAttempts |-> remaining]

\* verify-otp from the request to the await of the attempts update: input
\* validation, the select of the latest unverified row, the expiry and
\* attempt-limit checks with their audit rows and responses
VerifyRequest(w, u, otp, auditOk) ==
    /\ verifyCalls[w].pc = "idle"
    /\ IF u = "null" \/ otp = <<>>
       THEN /\ responses' = Append(responses,
                    VerifyResponse(u, otp, 0, 400, "Missing userId or otp", -1))
            /\ UNCHANGED <<verifyCalls, audit_logs>>
       ELSE IF ~ValidFormat(otp)
       THEN /\ responses' = Append(responses,
                    VerifyResponse(u, otp, 0, 400, "Invalid OTP format", -1))
            /\ UNCHANGED <<verifyCalls, audit_logs>>
       ELSE IF LatestUnverified(u) = {}
       THEN /\ responses' = Append(responses,
                    VerifyResponse(u, otp, 0, 404, "No pending OTP request found", -1))
            /\ UNCHANGED <<verifyCalls, audit_logs>>
       ELSE \E id \in LatestUnverified(u) :
            LET req == otp_requests[id] IN
            IF IsExpired(req, now)
            THEN /\ audit_logs' = InsertAudit(audit_logs,
                        AuditRow("otp_failed", u, <<"expired">>), auditOk)
                 /\ responses' = Append(responses, AfterAudit(
                        VerifyResponse(u, otp, id, 400, "OTP has expired", -1),
                        auditOk))
                 /\ UNCHANGED verifyCalls
            ELSE IF AttemptsExceeded(req)
            THEN /\ audit_logs' = InsertAudit(audit_logs,
                        AuditRow("otp_failed", u, <<"max_attempts_exceeded">>), auditOk)
                 /\ responses' = Append(responses, AfterAudit(
                        VerifyResponse(u, otp, id, 400, "Maximum attempts exceeded", -1),
                        auditOk))
                 /\ UNCHANGED verifyCalls
            ELSE /\ verifyCalls' = [verifyCalls EXCEPT ![w] =
                        [pc |-> "increment", userId |-> u, otp |-> otp,
                         id |-> id, otpRequest |-> req]]
                 /\ UNCHANGED <<responses, audit_logs>>
    /\ UNCHANGED <<receipts, profiles, elections, votes, otp_requests, now, pages, sendCalls>>

NoIncrement(rows, id, req) == rows

IncrementAndExtend(rows, id, req) ==
    [rows EXCEPT ![id].attempts = req.attempts + 1,
                 ![id].expires_at = @ + OtpTtl]

\* .update({ attempts: otpRequest.attempts + 1 }).eq("id", otpRequest.id)
IncrementAttempts(rows, id, req) ==
    [rows EXCEPT ![id].attempts = req.attempts + 1]

\* verify-otp from the attempts update to the next await: the update (ok:
\* whether the database applied it; the handler does not read the error), the
\* hash comparison, and on a mismatch the audit row and the response
VerifyIncrement(w, ok, auditOk) ==
    /\ verifyCalls[w].pc = "increment"
    /\ LET c == verifyCalls[w]
           req == c.otpRequest
       IN /\ otp_requests' = IF ok THEN IncrementAttempts(otp_requests, c.id, req)
                               ELSE otp_requests
          /\ IF hashOtp(c.otp) # req.otp_hash
             THEN /\ audit_logs' = InsertAudit(audit_logs,
                         AuditRow("otp_failed", c.userId,
                                  <<"invalid_otp", RemainingAttempts(req)>>), auditOk)
                  /\ responses' = Append(responses, AfterAudit(
                         VerifyResponse(c.userId, c.otp, c.id, 400,
                                        "Invalid OTP", RemainingAttempts(req)),
                         auditOk))
                  /\ verifyCalls' = [verifyCalls EXCEPT ![w] = IdleVerify]
             ELSE /\ verifyCalls' = [verifyCalls EXCEPT ![w].pc = "markOtp"]
                  /\ UNCHANGED <<audit_logs, responses>>
    /\ UNCHANGED <<receipts, profiles, elections, votes, now, pages, sendCalls>>

\* verify-otp: .update({ verified: true }).eq("id", otpRequest.id); ok tells
\* whether the database applied the update (the handler does not read the
\* error the client returns)
VerifyMarkOtp(w, ok) ==
    /\ verifyCalls[w].pc = "markOtp"
    /\ otp_requests' = IF ok
                       THEN [otp_requests EXCEPT ![verifyCalls[w].id].verified = TRUE]
                       ELSE otp_requests
    /\ verifyCalls' = [verifyCalls EXCEPT ![w].pc = "markProfile"]
    /\ UNCHANGED <<receipts, profiles, elections, votes, audit_logs, now, pages,
                   sendCalls, responses>>

\* verify-otp: the profile update (ok: whether the database applied it), the
\* otp_verified audit row, the response
VerifyMarkProfile(w, ok, auditOk) ==
    /\ verifyCalls[w].pc = "markProfile"
    /\ LET c == verifyCalls[w] IN
       /\ profiles' = IF ok THEN [profiles EXCEPT ![c.userId] = TRUE] ELSE profiles
       /\ audit_logs' = InsertAudit(audit_logs,
              AuditRow("otp_verified", c.userId, <<c.otpRequest.delivery_channel>>),
              auditOk)
       /\ responses' = Append(responses, AfterAudit(
              VerifyResponse(c.userId, c.otp, c.id, 200, "OTP verified successfully", -1),
              auditOk))
    /\ verifyCalls' = [verifyCalls EXCEPT ![w] = IdleVerify]
    /\ UNCHANGED <<receipts, elections, votes, otp_requests, now, pages, sendCalls>>


IdleSend == [pc |-> "idle", userId |-> "null", channel |-> "null", email |-> "",
             phone |-> "", otp |-> <<>>, expiresAt |-> 0]

\* what a send-otp call was asked to deliver and what the providers reported
\* (emailOk, smsOk: the answer of each provider when it is asked)
Delivery(c, emailOk, smsOk) ==
    [channel |-> c.channel, email |-> c.email, phone |-> c.phone,
     emailOk |-> emailOk, smsOk |-> smsOk]

\* the call was answered before any dispatch
NoDelivery ==
    [channel |-> "null", email |-> "", phone |-> "", emailOk |-> FALSE, smsOk |-> FALSE]

\* a response of send-otp; email and sms are the channels flags of the body,
\* delivery what the call dispatched
SendResponse(u, status, body, email, sms, delivery) ==
    [fn |-> "send-otp", userId |-> u, status |-> status, body |-> body,
     email |-> email, sms |-> sms, delivery |-> delivery]

\* .eq("user_id", userId).gte("created_at", oneHourAgo), count: "exact"
RecentCount(u, t) ==
    Cardinality({i \in RowsOf(u) : otp_requests[i].created_at >= t - RateWindow})

RateLimitedAbove(count) == count # 0 /\ count > RateLimit

\* count && count >= 5
RateLimited(count) == count # 0 /\ count >= RateLimit

\* send-otp from the request to the await of the insert: input validation,
\* the rate-limit count, generateOtp (returning otp) and expiresAt
SendRequest(i, u, ch, em, ph, otp) ==
    /\ sendCalls[i].pc = "idle"
    /\ IF u = "null" \/ ch = "null"
       THEN /\ responses' = Append(responses,
                    SendResponse(u, 400, "Missing userId or channel", FALSE, FALSE,
                                 NoDelivery))
            /\ UNCHANGED sendCalls
       ELSE IF RateLimited(RecentCount(u, now))
       THEN /\ responses' = Append(responses,
                    SendResponse(u, 429, "Too many OTP requests", FALSE, FALSE,
                                 NoDelivery))
            /\ UNCHANGED sendCalls
       ELSE /\ sendCalls' = [sendCalls EXCEPT ![i] =
                    [pc |-> "insert", userId |-> u, channel |-> ch, email |-> em,
                     phone |-> ph, otp |-> otp, expiresAt |-> now + OtpTtl]]
            /\ UNCHANGED responses
    /\ UNCHANGED <<receipts, profiles, elections, votes, otp_requests, audit_logs, now,
                   pages, verifyCalls>>

OtpRowLongLived(c, t) ==
    [user_id |-> c.userId, otp_hash |-> hashOtp(c.otp), expires_at |-> t + RateWindow,
     delivery_channel |-> c.channel, attempts |-> 0, max_attempts |-> MaxAttempts,
     verified |-> FALSE, created_at |-> t]

\* the row send-otp inserts; verified and created_at take the column defaults
OtpRow(c, t) ==
    [user_id |-> c.userId, otp_hash |-> hashOtp(c.otp), expires_at |-> c.expiresAt,
     delivery_channel |-> c.channel, attempts |-> 0, max_attempts |-> MaxAttempts,
     verified |-> FALSE, created_at |-> t]

\* send-otp: the insert into otp_requests
SendInsert(i) ==
    /\ sendCalls[i].pc = "insert"
    /\ otp_requests' = Append(otp_requests, OtpRow(sendCalls[i], now))
    /\ sendCalls' = [sendCalls EXCEPT ![i].pc = "dispatch"]
    /\ UNCHANGED <<receipts, profiles, elections, votes, audit_logs, now, pages,
                   verifyCalls, responses>>

EmailRequestedAnyAddress(c) == c.channel \in {"email", "both"}

\* (channel === "email" || channel === "both") && email
EmailRequested(c) == c.channel \in {"email", "both"} /\ c.email # ""
\* (channel === "sms" || channel === "both") && phone
SmsRequested(c) == c.channel \in {"sms", "both"} /\ c.phone # ""

\* send-otp: both providers answer (emailOk, smsOk: what a provider that is
\* asked reports), then the otp_sent audit row and the response
SendDispatch(i, emailOk, smsOk, auditOk) ==
    /\ sendCalls[i].pc = "dispatch"
    /\ LET c == sendCalls[i]
           emailSent == EmailRequested(c) /\ emailOk
           smsSent == SmsRequested(c) /\ smsOk
       IN /\ audit_logs' = InsertAudit(audit_logs,
                 AuditRow("otp_sent", c.userId, <<c.channel, emailSent, smsSent>>),
                 auditOk)
          /\ responses' = Append(responses, AfterAudit(
                 IF ~emailSent /\ ~smsSent
                 THEN SendResponse(c.userId, 500, "Failed to send OTP", FALSE, FALSE,
                                   Delivery(c, emailOk, smsOk))
                 ELSE SendResponse(c.userId, 200, "OTP sent successfully",
                                   emailSent, smsSent, Delivery(c, emailOk, smsOk)),
                 auditOk))
    /\ sendCalls' = [sendCalls EXCEPT ![i] = IdleSend]
    /\ UNCHANGED <<receipts, profiles, elections, votes, otp_requests, now, pages, verifyCalls>>

\* d minutes pass
Tick(d) ==
    /\ now' = now + d
    /\ UNCHANGED <<receipts, profiles, elections, votes, otp_requests, audit_logs,
                   pages, verifyCalls, sendCalls, responses>>

(***************************************************************************)
(* Specifications                                                          *)
(***************************************************************************)
\* edge-function invocations started so far
CallsSoFar ==
    Len(responses)
    + Cardinality({w \in VerifyWorkers : verifyCalls[w].pc # "idle"})
    + Cardinality({i \in SendWorkers : sendCalls[i].pc # "idle"})

\* rows of otp_requests stored or about to be
RowsSoFar ==
    Len(otp_requests) + Cardinality({i \in SendWorkers : sendCalls[i].pc = "insert"})

\* the tables after the migration, nobody registered as verified, no page open
Init ==
    /\ profiles = [u \in Voters |-> FALSE]
    /\ elections = [e \in Elections |-> "draft"]
    /\ votes = <<>>
    /\ otp_requests = <<>>
    /\ audit_logs = <<>>
    /\ now = 0
    /\ pages = [s \in Sessions |-> ClosedPage]
    /\ verifyCalls = [w \in VerifyWorkers |-> IdleVerify]
    /\ sendCalls = [i \in SendWorkers |-> IdleSend]
    /\ responses = <<>>
    /\ receipts = [s \in Sessions |-> ClosedReceipt]

\* --- casting: the VotePage sessions and the administrator ---------------
\* a row of otp_requests that verify-otp has verified for user u
VerifiedRow(u) ==
    [user_id |-> u, otp_hash |-> hashOtp(Code1), expires_at |-> OtpTtl,
     delivery_channel |-> "email", attempts |-> 1, max_attempts |-> MaxAttempts,
     verified |-> TRUE, created_at |-> 0]

\* the tables once the users of vs have passed OTP verification and the
\* administrator has opened the elections
InitCast ==
    \E vs \in {{"v2"}, {"v1", "v2"}} :
        /\ profiles = [u \in Voters |-> u \in vs]
        /\ otp_requests = IF vs = {"v2"} THEN <<VerifiedRow("v2")>>
                          ELSE <<VerifiedRow("v1"), VerifiedRow("v2")>>
        /\ elections = [e \in Elections |-> "active"]
        /\ votes = <<>>
        /\ audit_logs = <<>>
        /\ now = 0
        /\ pages = [s \in Sessions |-> ClosedPage]
        /\ verifyCalls = [w \in VerifyWorkers |-> IdleVerify]
        /\ sendCalls = [i \in SendWorkers |-> IdleSend]
        /\ responses = <<>>
        /\ receipts = [s \in Sessions |-> ClosedReceipt]

\* who opens which ballot where: v1 in two tabs on e1, or v2 on e2
CastLogins == {<<"s1", "v1", "e1">>, <<"s2", "v1", "e1">>, <<"s2", "v2", "e2">>}
\* the election the administrator closes and reopens
CastAdminElections == {"e1"}
CastAdminStatuses == {"upcoming", "active", "ended"}

NextCast ==
    \/ \E l \in CastLogins : OpenPage(l[1], l[2], l[3])
    \/ \E s \in Sessions : CheckVerification(s)
    \/ \E s \in Sessions : FetchElection(s)
    \/ \E s \in Sessions : FetchHasVoted(s)
    \/ \E s \in Sessions, c \in Candidates : SelectCandidate(s, c)
    \/ \E s \in Sessions, tok \in Tokens : SubmitVote(s, tok)
    \/ \E s \in Sessions : InsertVote(s)
    \/ \E s \in Sessions : ClosePage(s)
    \/ \E e \in CastAdminElections, st \in CastAdminStatuses : AdminSetStatus(e, st)

SpecCast == InitCast /\ [][NextCast]_vars


\* --- verification, one call at a time ---------------------------------
\* the clock of the verification behaviours stops here
MaxVerifyTime == 10
\* most edge-function invocations of a one-at-a-time behaviour
MaxSeqCalls == 5
\* most rows of otp_requests in a verification behaviour
MaxVerifyRows == 2
\* minutes between two looks at the clock
VerifyTicks == {5}
OtpUsers == {"v1"}

\* a send-otp invocation by email, delivered
SendByEmail(i, cap) ==
    \E u \in OtpUsers, otp \in Codes :
        /\ CallsSoFar < cap
        /\ RowsSoFar < MaxVerifyRows
        /\ SendRequest(i, u, "email", "v1@example.org", "", otp)

\* what the client posts as otp: either passcode, or a malformed string
SeqOtpInputs == Codes \cup {<<"1", "2", "3", "4", "5", "a">>}

\* no edge-function invocation is in flight
AllIdle ==
    /\ \A w \in VerifyWorkers : verifyCalls[w].pc = "idle"
    /\ \A i \in SendWorkers : sendCalls[i].pc = "idle"

NextVerifySeq ==
    \/ AllIdle /\ SendByEmail("i1", MaxSeqCalls)
    \/ SendInsert("i1")
    \/ SendDispatch("i1", TRUE, FALSE, TRUE)
    \/ \E u \in OtpUsers, otp \in SeqOtpInputs :
           AllIdle /\ CallsSoFar < MaxSeqCalls /\ VerifyRequest("w1", u, otp, TRUE)
    \/ VerifyIncrement("w1", TRUE, TRUE)
    \/ VerifyMarkOtp("w1", TRUE)
    \/ VerifyMarkProfile("w1", TRUE, TRUE)
    \/ \E d \in VerifyTicks : now + d <= MaxVerifyTime /\ Tick(d)

SpecVerifySeq == Init /\ [][NextVerifySeq]_vars

\* --- verification, calls in parallel ----------------------------------
\* most edge-function invocations of a parallel behaviour
MaxParCalls == 5

NextVerify ==
    \/ SendByEmail("i1", MaxParCalls)
    \/ SendInsert("i1")
    \/ SendDispatch("i1", TRUE, FALSE, TRUE)
    \/ \E w \in VerifyWorkers, u \in OtpUsers, otp \in Codes :
           CallsSoFar < MaxParCalls /\ VerifyRequest(w, u, otp, TRUE)
    \/ \E w \in VerifyWorkers : VerifyIncrement(w, TRUE, TRUE)
    \/ \E w \in VerifyWorkers : VerifyMarkOtp(w, TRUE)
    \/ \E w \in VerifyWorkers : VerifyMarkProfile(w, TRUE, TRUE)

SpecVerify == Init /\ [][NextVerify]_vars

\* --- verification with failing writes ----------------------------------
\* most edge-function invocations of a behaviour with failing writes
MaxFaultCalls == 3

NextVerifyFault ==
    \/ AllIdle /\ SendByEmail("i1", MaxFaultCalls)
    \/ SendInsert("i1")
    \/ SendDispatch("i1", TRUE, FALSE, TRUE)
    \/ \E u \in OtpUsers, otp \in Codes :
           AllIdle /\ CallsSoFar < MaxFaultCalls /\ VerifyRequest("w1", u, otp, TRUE)
    \/ \E ok \in BOOLEAN : VerifyIncrement("w1", ok, TRUE)
    \/ \E ok \in BOOLEAN : VerifyMarkOtp("w1", ok)
    \/ \E ok \in BOOLEAN : VerifyMarkProfile("w1", ok, TRUE)

SpecVerifyFault == Init /\ [][NextVerifyFault]_vars

\* --- failing audit inserts ----------------------------------------------
\* most edge-function invocations of a behaviour with failing audit inserts
MaxAuditCalls == 5

\* most rows of otp_requests in such a behaviour
MaxAuditRows == 1

NextAuditFault ==
    \/ /\ AllIdle /\ CallsSoFar < MaxAuditCalls /\ RowsSoFar < MaxAuditRows
       /\ SendRequest("i1", "v1", "email", "v1@example.org", "", Code1)
    \/ SendInsert("i1")
    \/ \E emailOk \in BOOLEAN, auditOk \in BOOLEAN :
           SendDispatch("i1", emailOk, FALSE, auditOk)
    \/ \E u \in OtpUsers, otp \in Codes, auditOk \in BOOLEAN :
           AllIdle /\ CallsSoFar < MaxAuditCalls /\ VerifyRequest("w1", u, otp, auditOk)
    \/ \E auditOk \in BOOLEAN : VerifyIncrement("w1", TRUE, auditOk)
    \/ VerifyMarkOtp("w1", TRUE)
    \/ \E auditOk \in BOOLEAN : VerifyMarkProfile("w1", TRUE, auditOk)
    \/ \E d \in VerifyTicks : now + d <= MaxVerifyTime /\ Tick(d)

SpecAuditFault == Init /\ [][NextAuditFault]_vars

\* --- malformed requests --------------------------------------------------
\* most edge-function invocations of a behaviour with malformed requests
MaxFormatCalls == 3
\* the userId a client posts ("null": none)
UserInputs == OtpUsers \cup {"null"}

NextFormat ==
    \/ AllIdle /\ SendByEmail("i1", MaxFormatCalls)
    \/ SendInsert("i1")
    \/ SendDispatch("i1", TRUE, FALSE, TRUE)
    \/ \E u \in UserInputs, otp \in OtpInputs :
           AllIdle /\ CallsSoFar < MaxFormatCalls /\ VerifyRequest("w1", u, otp, TRUE)
    \/ VerifyIncrement("w1", TRUE, TRUE)
    \/ VerifyMarkOtp("w1", TRUE)
    \/ VerifyMarkProfile("w1", TRUE, TRUE)

SpecFormat == Init /\ [][NextFormat]_vars

\* --- issuance ----------------------------------------------------------
\* the clock of the issuance behaviours stops here
MaxIssueTime == 90
\* most send-otp invocations of an issuance behaviour
MaxIssueCalls == 7
IssueTicks == {30}

\* a send-otp invocation of v1 by email
IssueRequest(i) ==
    /\ CallsSoFar < MaxIssueCalls
    /\ SendRequest(i, "v1", "email", "v1@example.org", "", Code1)

NextIssueSeq ==
    \/ IssueRequest("i1")
    \/ SendInsert("i1")
    \/ \E ok \in BOOLEAN : SendDispatch("i1", ok, FALSE, TRUE)
    \/ \E d \in IssueTicks : now + d <= MaxIssueTime /\ Tick(d)

SpecIssueSeq == Init /\ [][NextIssueSeq]_vars

NextIssue ==
    \/ \E i \in SendWorkers : IssueRequest(i)
    \/ \E i \in SendWorkers : SendInsert(i)
    \/ \E i \in SendWorkers : SendDispatch(i, TRUE, FALSE, TRUE)
    \/ \E d \in IssueTicks : now + d <= MaxIssueTime /\ Tick(d)

SpecIssue == Init /\ [][NextIssue]_vars

\* --- delivery -----------------------------------------------------------
\* most send-otp invocations of a delivery behaviour
MaxDeliverCalls == 2
\* the addresses a client posts ("": none)
EmailInputs == {"", "v1@example.org"}
PhoneInputs == {"", "+15550100"}

NextDeliver ==
    \/ \E ch \in Channels, em \in EmailInputs, ph \in PhoneInputs :
           /\ CallsSoFar < MaxDeliverCalls
           /\ SendRequest("i1", "v1", ch, em, ph, Code1)
    \/ SendInsert("i1")
    \/ \E emailOk \in BOOLEAN, smsOk \in BOOLEAN : SendDispatch("i1", emailOk, smsOk, TRUE)

SpecDeliver == Init /\ [][NextDeliver]_vars

\* --- receipts and direct requests to the tables ---------------------------
\* tokens a receipt URL can carry: the stored ones, or none
ReceiptTokens == Tokens \cup {"null"}
ReceiptSessions == {"s1"}

NextDirect ==
    \/ \E uid \in Voters, u \in Voters, e \in Elections, c \in Candidates,
          tok \in Tokens : PostVote(uid, u, e, c, tok)
    \/ \E uid \in Voters, id \in Voters, v \in BOOLEAN : UpdateProfile(uid, id, v)
    \/ \E s \in ReceiptSessions, u \in Voters, e \in Elections,
          tok \in ReceiptTokens : OpenReceipt(s, u, e, tok)
    \/ \E s \in ReceiptSessions : FetchVoteDetails(s)
    \/ \E s \in ReceiptSessions : CloseReceipt(s)

SpecDirect == InitCast /\ [][NextDirect]_vars

\* --- one voter from the passcode to the receipt --------------------------
\* most edge-function invocations of such a behaviour
MaxJourneyCalls == 2

NextJourney ==
    \/ \E e \in Elections : AdminSetStatus(e, "active")
    \/ /\ AllIdle /\ CallsSoFar < MaxJourneyCalls
       /\ SendRequest("i1", "v1", "email", "v1@example.org", "", Code1)
    \/ SendInsert("i1")
    \/ SendDispatch("i1", TRUE, FALSE, TRUE)
    \/ \E otp \in Codes :
           AllIdle /\ CallsSoFar < MaxJourneyCalls /\ VerifyRequest("w1", "v1", otp, TRUE)
    \/ VerifyIncrement("w1", TRUE, TRUE)
    \/ VerifyMarkOtp("w1", TRUE)
    \/ VerifyMarkProfile("w1", TRUE, TRUE)
    \/ \E e \in Elections : OpenPage("s1", "v1", e)
    \/ CheckVerification("s1")
    \/ FetchElection("s1")
    \/ FetchHasVoted("s1")
    \/ \E c \in Candidates : SelectCandidate("s1", c)
    \/ \E tok \in Tokens : SubmitVote("s1", tok)
    \/ InsertVote("s1")
    \/ ClosePage("s1")
    \/ \E e \in Elections, tok \in Tokens : OpenReceipt("s1", "v1", e, tok)
    \/ FetchVoteDetails("s1")
    \/ CloseReceipt("s1")

SpecJourney == Init /\ [][NextJourney]_vars

(***************************************************************************)
(* Properties of casting (SpecCast)                                        *)
(***************************************************************************)
\* C1: in every reachable state the votes table holds at most one row for
\* each (voter, election), whatever the interleaving of the sessions' casts.
C1_OneVotePerVoterElection ==
    \A i, j \in 1..Len(votes) :
        (votes[i].user_id = votes[j].user_id
         /\ votes[i].election_id = votes[j].election_id) => i = j

\* two sessions of one voter cast in the same election at once; one insert
\* was stored and the other was rejected
C1_Witness ==
    \E s, t \in Sessions :
        /\ t \in pages[s].rivals
        /\ pages[t].open /\ pages[t].user = pages[s].user
        /\ pages[t].electionId = pages[s].electionId
        /\ {pages[s].outcome, pages[t].outcome} = {"receipt", "AlreadyVoted"}

\* sessions s and t cast for the same voter and election with distinct
\* candidates, t's cast was in flight when s's insert returned, and both
\* inserts have returned
RacedCasts(s, t) ==
    /\ s # t /\ t \in pages[s].rivals
    /\ pages[s].open /\ pages[t].open
    /\ pages[t].user = pages[s].user /\ pages[t].electionId = pages[s].electionId
    /\ pages[s].selectedCandidate # pages[t].selectedCandidate
    /\ ~pages[t].isSubmitting /\ pages[t].outcome # "none"

\* C2: of two concurrent casts for the same (voter, election) with distinct
\* valid candidates exactly one ends in success with its ballot token and the
\* other ends in AlreadyVoted; none ends in a generic failure.
C2_ExactlyOneSucceeds ==
    \A s, t \in Sessions :
        RacedCasts(s, t) =>
            {pages[s].outcome, pages[t].outcome} = {"receipt", "AlreadyVoted"}

\* C7: no Vote row is ever inserted for a voter whose verified flag is false
\* (profiles.verified never returns to false, so the flag at insertion time is
\* the flag of the state reached).
C7_NoVoteByUnverified ==
    \A i \in 1..Len(votes) : profiles[votes[i].user_id]

\* C8: no Vote row is inserted for an election whose stored status is not
\* active at the time of the insert, also when the status changed after the page
\* had loaded the election.
C8_NoVoteUnlessActive ==
    [][Len(votes') > Len(votes) =>
          elections[votes'[Len(votes')].election_id] = "active"]_vars

\* C11: in every reachable state the ballot_token values of all Vote rows,
\* across all elections and voters, are pairwise distinct.
C11_BallotTokensDistinct ==
    \A i, j \in 1..Len(votes) :
        votes[i].ballot_token = votes[j].ballot_token => i = j

\* a cast of a voter without a Vote row in the election drew the token of a
\* stored Vote and was rejected
C11_Witness ==
    \E s \in Sessions :
        /\ pages[s].open /\ pages[s].outcome \in {"AlreadyVoted", "VoteFailed"}
        /\ ~HasVoteRow(votes, pages[s].user, pages[s].electionId)
        /\ \E i \in 1..Len(votes) :
               /\ votes[i].ballot_token = pages[s].ballotToken
               /\ votes[i].user_id # pages[s].user

\* the insert of session s returns in this step, its voter has no Vote row in
\* the election and its ballot token is the token of a stored Vote
TokenCollisionStep(s) ==
    /\ pages[s].isSubmitting /\ ~pages'[s].isSubmitting
    /\ ~HasVoteRow(votes, pages[s].user, pages[s].electionId)
    /\ \E i \in 1..Len(votes) : votes[i].ballot_token = pages[s].ballotToken

\* C12: a cast by a voter without a Vote row in the election that is rejected
\* because its ballot token collides with a stored Vote ends in a generic
\* failure, not in AlreadyVoted, and does not mark the voter as having voted, so
\* that the voter can cast again.
C12_CollisionIsGenericFailure ==
    [][\A s \in Sessions :
          TokenCollisionStep(s) =>
              /\ pages'[s].outcome = "VoteFailed"
              /\ pages'[s].hasVoted = pages[s].hasVoted
              /\ View(pages'[s]) = "ballot"]_vars

\* audit entries of type vote_cast for voter u and election e
VoteCastEntries(u, e) ==
    {i \in 1..Len(audit_logs) :
        /\ audit_logs[i].event_type = "vote_cast"
        /\ audit_logs[i].user_id = u
        /\ audit_logs[i].details = <<e>>}

\* Vote rows of voter u in election e
VoteRowsOf(u, e) ==
    {i \in 1..Len(votes) : votes[i].user_id = u /\ votes[i].election_id = e}

\* C20: once the casts of a voter in an election have completed, the number of
\* vote_cast audit entries for (voter, election) equals the number of Vote rows
\* of that pair.
C20_VoteCastAudited ==
    \A u \in Voters, e \in Elections :
        (\A s \in Sessions :
            ~(pages[s].isSubmitting /\ pages[s].user = u /\ pages[s].electionId = e))
            => Cardinality(VoteCastEntries(u, e)) = Cardinality(VoteRowsOf(u, e))


(***************************************************************************)
(* Properties of verification                                              *)
(***************************************************************************)
\* the verify-otp responses about row id of otp_requests, in order
VerifyResponsesOf(id) ==
    SelectSeq(responses, LAMBDA r : r.fn = "verify-otp" /\ r.id = id)

\* verify-otp invocations that have compared a hash against row id
Comparisons(id) ==
    Len(SelectSeq(VerifyResponsesOf(id),
                  LAMBDA r : r.body \in {"Invalid OTP", "OTP verified successfully"}))
    + Cardinality({w \in VerifyWorkers :
                      /\ verifyCalls[w].pc \in {"markOtp", "markProfile"}
                      /\ verifyCalls[w].id = id})

\* C3: under any interleaving of verify calls the number of calls that reach
\* the hash comparison against one OtpRequest never exceeds its max_attempts.
C3_ComparisonsWithinBudget ==
    \A id \in 1..Len(otp_requests) :
        Comparisons(id) <= otp_requests[id].max_attempts

\* C4: with verify calls one at a time against a request that has not expired,
\* the k-th call with an incorrect code (k = 1, 2, 3) fails with InvalidCode
\* and remaining_attempts 3 - k, and after three such failures every further
\* call fails with AttemptsExceeded, whatever its code, and the request is not
\* verified (nor is the voter, if this is the voter's only request).
C4_ThreeStrikes ==
    \A id \in 1..Len(otp_requests) :
        LET L == VerifyResponsesOf(id)
            wrong(k) == hashOtp(L[k].otp) # otp_requests[id].otp_hash
            struck(k) == k <= Len(L) /\ \A j \in 1..k : L[j].body = "Invalid OTP"
        IN \A k \in 1..Len(L) :
            /\ (k <= 3 /\ struck(k - 1) /\ wrong(k) /\ L[k].body # "OTP has expired")
                   => (L[k].body = "Invalid OTP" /\ L[k].remainingAttempts = 3 - k)
            /\ (k > 3 /\ struck(3) /\ L[k].body # "OTP has expired")
                   => L[k].body = "Maximum attempts exceeded"
            /\ struck(3) =>
                   /\ ~otp_requests[id].verified
                   /\ RowsOf(otp_requests[id].user_id) = {id}
                          => ~profiles[otp_requests[id].user_id]

\* three wrong codes were answered 2, 1, 0 and a fourth call, with the correct
\* code, was answered AttemptsExceeded
C4_Witness ==
    \E id \in 1..Len(otp_requests) :
        LET L == VerifyResponsesOf(id) IN
        /\ Len(L) >= 4
        /\ \A k \in 1..3 : L[k].body = "Invalid OTP" /\ L[k].remainingAttempts = 3 - k
        /\ L[4].body = "Maximum attempts exceeded"
        /\ hashOtp(L[4].otp) = otp_requests[id].otp_hash

\* C5: a verify call with the correct code on the first attempt of an unexpired
\* request succeeds and sets Voter.verified; every later verify call of that
\* voter with a six-digit code fails with NoPendingRequest, also when the voter
\* had issued several requests before verifying (and none after).
C5_VerifiedIsTerminal ==
    /\ \A id \in 1..Len(otp_requests) :
           LET L == VerifyResponsesOf(id) IN
           (/\ Len(L) >= 1
            /\ hashOtp(L[1].otp) = otp_requests[id].otp_hash
            /\ L[1].body # "OTP has expired")
               => (L[1].status = 200 /\ profiles[otp_requests[id].user_id])
    /\ \A j, k \in 1..Len(responses) :
           (/\ j < k /\ AllIdle
            /\ responses[j].fn = "verify-otp" /\ responses[j].status = 200
            /\ responses[k].fn = "verify-otp"
            /\ responses[k].userId = responses[j].userId
            /\ ValidFormat(responses[k].otp)
            /\ \A i \in 1..Len(responses) : responses[i].fn = "send-otp" => i < j)
               => responses[k].status = 404

\* a step of verify-otp that takes a request with a well-formed code for user u
VerifyRequestStep(u) ==
    \/ \E w \in VerifyWorkers :
           /\ verifyCalls[w].pc = "idle" /\ verifyCalls'[w].pc = "increment"
           /\ verifyCalls'[w].userId = u
    \/ /\ verifyCalls' = verifyCalls
       /\ Len(responses') = Len(responses) + 1
       /\ responses'[Len(responses')].fn = "verify-otp"
       /\ responses'[Len(responses')].userId = u
       /\ ValidFormat(responses'[Len(responses')].otp)

\* C6: a verify call made when now > expires_at of the voter's most recent
\* unverified request fails with Expired, whatever its code and the attempts
\* left, and changes no OtpRequest (attempts, verified) and no Voter.
C6_ExpiredFailsUntouched ==
    [][\A u \in Voters :
          (/\ VerifyRequestStep(u)
           /\ LatestUnverified(u) # {}
           /\ \A id \in LatestUnverified(u) : otp_requests[id].expires_at < now)
              => /\ Len(responses') = Len(responses) + 1
                 /\ responses'[Len(responses')].body = "OTP has expired"
                 /\ responses'[Len(responses')].status = 400
                 /\ otp_requests' = otp_requests
                 /\ profiles' = profiles
                 /\ verifyCalls' = verifyCalls]_vars

\* a call with the correct code, with attempts left, was answered Expired
C6_Witness ==
    \E k \in 1..Len(responses) :
        /\ responses[k].fn = "verify-otp"
        /\ responses[k].body = "OTP has expired"
        /\ hashOtp(responses[k].otp) = otp_requests[responses[k].id].otp_hash
        /\ otp_requests[responses[k].id].attempts < otp_requests[responses[k].id].max_attempts
        /\ ~otp_requests[responses[k].id].verified
        /\ ~profiles[responses[k].userId]

\* row id of otp_requests has been superseded: its user has an unverified row
\* created after it
Superseded(id) ==
    \E j \in RowsOf(otp_requests[id].user_id) :
        /\ ~otp_requests[j].verified
        /\ \/ otp_requests[j].created_at > otp_requests[id].created_at
           \/ otp_requests[j].created_at = otp_requests[id].created_at /\ j > id

\* C13: verification matches against the voter's most recently created
\* unverified request: while a newer unverified request exists, no verify call
\* selects an earlier request, answers about it or changes it (its attempts are
\* neither consumed nor restored, its code is not accepted), and a call succeeds
\* only with the code of the request it selected.
C13_MatchesLatestUnverified ==
    [][/\ \A id \in 1..Len(otp_requests) :
              Superseded(id) =>
                  /\ otp_requests'[id] = otp_requests[id]
                  /\ \A w \in VerifyWorkers :
                         (verifyCalls'[w].pc # "idle" /\ verifyCalls'[w].id = id)
                             => verifyCalls[w] = verifyCalls'[w]
                  /\ (/\ Len(responses') > Len(responses)
                      /\ responses'[Len(responses')].fn = "verify-otp")
                         => responses'[Len(responses')].id # id
       /\ (/\ Len(responses') > Len(responses)
           /\ responses'[Len(responses')].fn = "verify-otp"
           /\ responses'[Len(responses')].status = 200)
              => hashOtp(responses'[Len(responses')].otp)
                     = otp_requests[responses'[Len(responses')].id].otp_hash]_vars

\* two unverified requests with different codes: the code of the earlier one
\* was refused against the later one, whose attempts it consumed, and the
\* earlier request is as it was issued
C13_Witness ==
    \E k \in 1..Len(responses), id, old \in 1..Len(otp_requests) :
        /\ responses[k].fn = "verify-otp" /\ responses[k].id = id
        /\ responses[k].body = "Invalid OTP"
        /\ old # id /\ Superseded(old)
        /\ otp_requests[old].user_id = otp_requests[id].user_id
        /\ hashOtp(responses[k].otp) = otp_requests[old].otp_hash
        /\ otp_requests[old].attempts = 0 /\ ~otp_requests[old].verified
        /\ otp_requests[id].attempts = 1

\* C16: whenever a verify call returns success, storage holds verified = true
\* for the matched OtpRequest and for the voter, also when one of the two
\* update writes fails.
C16_SuccessMeansVerified ==
    [][(/\ Len(responses') > Len(responses)
        /\ responses'[Len(responses')].fn = "verify-otp"
        /\ responses'[Len(responses')].status = 200)
           => /\ otp_requests'[responses'[Len(responses')].id].verified
              /\ profiles'[responses'[Len(responses')].userId]]_vars

\* verify-otp calls answered with success for row id of otp_requests
Successes(id) ==
    {k \in 1..Len(responses) :
        /\ responses[k].fn = "verify-otp" /\ responses[k].id = id
        /\ responses[k].status = 200}

\* C25: an OtpRequest is one-time: under any interleaving of concurrent verify
\* calls with the correct code at most one call returns success for it.
C25_OneSuccessPerRequest ==
    \A id \in 1..Len(otp_requests) : Cardinality(Successes(id)) <= 1

\* C26: the stored attempts counter of an OtpRequest never decreases: under
\* any interleaving of verify calls each write stores a value at least as large
\* as the value stored just before it.
C26_AttemptsNeverDecrease ==
    [][\A id \in 1..Len(otp_requests) :
          otp_requests'[id].attempts >= otp_requests[id].attempts]_vars

\* C27: in every reachable state every OtpRequest has 0 <= attempts <=
\* max_attempts, under any sequence and interleaving of issuance and verify
\* calls.
C27_AttemptsWithinBounds ==
    \A id \in 1..Len(otp_requests) :
        /\ 0 <= otp_requests[id].attempts
        /\ otp_requests[id].attempts <= otp_requests[id].max_attempts

\* two overlapping calls stored the same value, more calls than max_attempts
\* compared a code, and the counter stands at max_attempts
C27_Witness ==
    \E id \in 1..Len(otp_requests) :
        /\ otp_requests[id].attempts = otp_requests[id].max_attempts
        /\ Comparisons(id) > otp_requests[id].max_attempts

\* C28: every verify call that passes the expiry and attempt-limit checks
\* increments the request's attempts by exactly 1 before comparing, also when
\* the code is correct: a call on an unexpired request with attempts left goes on
\* to the increment, the increment stores the prior value plus 1, a matching code
\* then leads to success with the counter left at that value, also when the
\* prior value was max_attempts - 1.
C28_IncrementBeforeCompare ==
    [][/\ \A u \in Voters :
              (/\ VerifyRequestStep(u)
               /\ LatestUnverified(u) # {}
               /\ \A id \in LatestUnverified(u) :
                      /\ otp_requests[id].expires_at >= now
                      /\ otp_requests[id].attempts < otp_requests[id].max_attempts)
                  => \E w \in VerifyWorkers :
                         /\ verifyCalls[w].pc = "idle"
                         /\ verifyCalls'[w].pc = "increment"
                         /\ verifyCalls'[w].id \in LatestUnverified(u)
       /\ \A w \in VerifyWorkers :
              LET c == verifyCalls[w] IN
              /\ (c.pc = "increment" /\ verifyCalls'[w].pc # "increment")
                     => /\ otp_requests'[c.id].attempts = otp_requests[c.id].attempts + 1
                        /\ hashOtp(c.otp) = otp_requests[c.id].otp_hash
                               => verifyCalls'[w].pc = "markOtp"
              /\ (c.pc = "markOtp" /\ verifyCalls'[w].pc # "markOtp")
                     => /\ verifyCalls'[w].pc = "markProfile"
                        /\ otp_requests'[c.id].attempts = otp_requests[c.id].attempts
              /\ (c.pc = "markProfile" /\ verifyCalls'[w].pc # "markProfile")
                     => /\ Len(responses') = Len(responses) + 1
                        /\ responses'[Len(responses')].status = 200
                        /\ responses'[Len(responses')].id = c.id
                        /\ otp_requests'[c.id].attempts = c.otpRequest.attempts + 1]_vars

\* after two wrong codes the correct code succeeded on the last attempt, which
\* it consumed
C28_Witness ==
    \E id \in 1..Len(otp_requests) :
        LET L == VerifyResponsesOf(id) IN
        /\ Len(L) = 3
        /\ L[1].body = "Invalid OTP" /\ L[2].body = "Invalid OTP"
        /\ L[3].status = 200
        /\ otp_requests[id].attempts = 3 /\ otp_requests[id].verified

\* the fields of a row of otp_requests that no verify call writes
Immutable(row) ==
    [user_id |-> row.user_id, otp_hash |-> row.otp_hash,
     expires_at |-> row.expires_at, delivery_channel |-> row.delivery_channel,
     max_attempts |-> row.max_attempts, created_at |-> row.created_at]

\* C29: a verify call that fails with NoPendingRequest, Expired or
\* AttemptsExceeded leaves every OtpRequest row and the Voter row unchanged, and
\* any verify call changes at most the attempts and verified fields of the one
\* request it selected: otp_hash, expires_at, max_attempts and every other
\* request stay as they were.
C29_VerifyFrame ==
    [][/\ (/\ Len(responses') > Len(responses)
           /\ responses'[Len(responses')].fn = "verify-otp"
           /\ responses'[Len(responses')].body \in
                  {"No pending OTP request found", "OTP has expired",
                   "Maximum attempts exceeded"})
              => otp_requests' = otp_requests /\ profiles' = profiles
       /\ \A id \in 1..Len(otp_requests) :
              /\ Immutable(otp_requests'[id]) = Immutable(otp_requests[id])
              /\ otp_requests'[id] # otp_requests[id]
                     => /\ \E w \in VerifyWorkers :
                               /\ verifyCalls[w].pc \in {"increment", "markOtp"}
                               /\ verifyCalls[w].id = id
                        /\ \A j \in 1..Len(otp_requests) :
                               j # id => otp_requests'[j] = otp_requests[j]]_vars

\* the voter holds two requests: a call against the later one failed with
\* InvalidCode, a call after its expiry with Expired, and the earlier request
\* is as it was issued
C29_Witness ==
    /\ Len(otp_requests) = 2
    /\ otp_requests[1].attempts = 0 /\ ~otp_requests[1].verified
    /\ otp_requests[2].attempts = 1 /\ ~otp_requests[2].verified
    /\ \E j, k \in 1..Len(responses) :
           /\ j < k
           /\ responses[j].fn = "verify-otp" /\ responses[j].id = 2
           /\ responses[j].body = "Invalid OTP"
           /\ responses[k].fn = "verify-otp" /\ responses[k].id = 2
           /\ responses[k].body = "OTP has expired"

\* C30: if the write that increments attempts fails, the verify call does not
\* go on to compare the code: it ends in a generic storage failure with
\* OtpRequest.verified and Voter.verified unchanged, so that no comparison is
\* performed without consuming an attempt.
C30_NoCompareWithoutIncrement ==
    [][\A w \in VerifyWorkers :
          LET c == verifyCalls[w] IN
          (/\ c.pc = "increment" /\ verifyCalls'[w].pc # "increment"
           /\ otp_requests'[c.id].attempts = otp_requests[c.id].attempts)
              => /\ verifyCalls'[w].pc = "idle"
                 /\ Len(responses') = Len(responses) + 1
                 /\ responses'[Len(responses')].status = 500
                 /\ otp_requests' = otp_requests
                 /\ profiles' = profiles]_vars

\* the response appended by this step
NewResponse == responses'[Len(responses')]

\* C23: a failed audit-log write does not change the outcome of the primary
\* operation: whether or not the audit insert is stored, a verify call answers
\* Expired, AttemptsExceeded, InvalidCode (with the attempts consumed) or
\* success (with the voter verified) as the request and the code determine, a
\* send call answers by the delivery outcomes, and the OtpRequest and Voter
\* rows are those of the primary operation.
C23_AuditFailureHarmless ==
    [][/\ \A u \in Voters :
              (/\ VerifyRequestStep(u) /\ verifyCalls' = verifyCalls
               /\ LatestUnverified(u) # {})
                  => /\ \A id \in LatestUnverified(u) :
                            /\ NewResponse.status = 400
                            /\ NewResponse.body =
                                   IF otp_requests[id].expires_at < now
                                   THEN "OTP has expired"
                                   ELSE "Maximum attempts exceeded"
                            /\ otp_requests[id].expires_at >= now
                                   => otp_requests[id].attempts
                                          >= otp_requests[id].max_attempts
                     /\ otp_requests' = otp_requests /\ profiles' = profiles
       /\ \A w \in VerifyWorkers :
              LET c == verifyCalls[w] IN
              /\ (c.pc = "increment" /\ verifyCalls'[w].pc = "idle")
                     => /\ Len(responses') = Len(responses) + 1
                        /\ NewResponse.status = 400
                        /\ NewResponse.body = "Invalid OTP"
                        /\ NewResponse.remainingAttempts
                               = otp_requests[c.id].max_attempts
                                     - otp_requests'[c.id].attempts
                        /\ otp_requests'[c.id].attempts
                               = otp_requests[c.id].attempts + 1
                        /\ profiles' = profiles
              /\ (c.pc = "markProfile" /\ verifyCalls'[w].pc = "idle")
                     => /\ Len(responses') = Len(responses) + 1
                        /\ NewResponse.status = 200
                        /\ NewResponse.body = "OTP verified successfully"
                        /\ profiles'[c.userId]
                        /\ otp_requests' = otp_requests
                        /\ otp_requests[c.id].verified
       /\ \A i \in SendWorkers :
              (sendCalls[i].pc = "dispatch" /\ sendCalls'[i].pc = "idle")
                  => /\ Len(responses') = Len(responses) + 1
                     /\ NewResponse.status = (IF NewResponse.email \/ NewResponse.sms
                                              THEN 200 ELSE 500)
                     /\ NewResponse.body = (IF NewResponse.email \/ NewResponse.sms
                                            THEN "OTP sent successfully"
                                            ELSE "Failed to send OTP")
                     /\ NewResponse.email
                            = (sendCalls[i].email # "" /\ NewResponse.delivery.emailOk)
                     /\ otp_requests' = otp_requests /\ profiles' = profiles]_vars

\* a passcode was sent and verified, the voter is verified, and neither audit
\* row was stored
C23_Witness ==
    /\ audit_logs = <<>>
    /\ \E j, k \in 1..Len(responses) :
           /\ responses[j].fn = "send-otp" /\ responses[j].status = 200
           /\ responses[k].fn = "verify-otp" /\ responses[k].status = 200
           /\ profiles[responses[k].userId]
           /\ otp_requests[responses[k].id].verified

\* otp is a string of exactly six decimal digits
SixDigits(otp) ==
    /\ Len(otp) = 6
    /\ \A i \in 1..Len(otp) :
           otp[i] \in {"0", "1", "2", "3", "4", "5", "6", "7", "8", "9"}

\* C24: a verify call whose code is not exactly 6 decimal digits, or whose
\* voter id or code is missing, fails with InvalidFormat before any storage
\* access: it selects no OtpRequest, changes no row and no attempts counter, and
\* writes no audit entry.
C24_InvalidFormatFailsFast ==
    [][/\ \A w \in VerifyWorkers :
              (verifyCalls[w].pc = "idle" /\ verifyCalls'[w].pc # "idle")
                  => /\ SixDigits(verifyCalls'[w].otp)
                     /\ verifyCalls'[w].userId # "null"
       /\ (/\ Len(responses') > Len(responses)
           /\ NewResponse.fn = "verify-otp"
           /\ (NewResponse.userId = "null" \/ ~SixDigits(NewResponse.otp)))
              => /\ NewResponse.status = 400
                 /\ NewResponse.body \in {"Missing userId or otp", "Invalid OTP format"}
                 /\ NewResponse.id = 0
                 /\ otp_requests' = otp_requests
                 /\ audit_logs' = audit_logs
                 /\ profiles' = profiles
                 /\ verifyCalls' = verifyCalls]_vars

\* a malformed code and a missing code were refused while a request of the
\* voter was pending, which kept all its attempts, and nothing was audited
C24_Witness ==
    /\ Len(otp_requests) = 1
    /\ otp_requests[1].attempts = 0 /\ ~otp_requests[1].verified
    /\ \A i \in 1..Len(audit_logs) : audit_logs[i].event_type # "otp_failed"
    /\ \E j, k \in 1..Len(responses) :
           /\ responses[j].fn = "verify-otp" /\ responses[j].body = "Invalid OTP format"
           /\ responses[j].userId = otp_requests[1].user_id
           /\ Len(responses[j].otp) = 6
           /\ responses[k].fn = "verify-otp"
           /\ responses[k].body = "Missing userId or otp"

(***************************************************************************)
(* Properties of issuance                                                  *)
(***************************************************************************)
\* rows of user u created in the 60 minutes up to t
RowsInWindow(u, t) ==
    {i \in 1..Len(otp_requests) :
        /\ otp_requests[i].user_id = u
        /\ otp_requests[i].created_at >= t - 60
        /\ otp_requests[i].created_at <= t}

\* a step of send-otp that takes a request of user u
SendRequestStep(u) ==
    \/ \E i \in SendWorkers :
           /\ sendCalls[i].pc = "idle" /\ sendCalls'[i].pc = "insert"
           /\ sendCalls'[i].userId = u
    \/ /\ sendCalls' = sendCalls
       /\ Len(responses') = Len(responses) + 1
       /\ responses'[Len(responses')].fn = "send-otp"
       /\ responses'[Len(responses')].userId = u

\* C9: with issuance requests one at a time, a request made when 5 rows of
\* the voter were created within the trailing 60 minutes fails with RateLimited
\* and stores no row, dispatches nothing and writes no audit entry; a request
\* made when fewer than 5 rows fall inside the trailing 60 minutes is accepted.
C9_RateLimit ==
    [][\A u \in Voters :
          SendRequestStep(u) =>
              IF Cardinality(RowsInWindow(u, now)) >= 5
              THEN /\ Len(responses') = Len(responses) + 1
                   /\ responses'[Len(responses')].status = 429
                   /\ otp_requests' = otp_requests
                   /\ audit_logs' = audit_logs
                   /\ sendCalls' = sendCalls
              ELSE /\ responses' = responses
                   /\ \E i \in SendWorkers : sendCalls'[i].pc = "insert"]_vars

\* a sixth request was refused, and after the window rolled forward a later
\* request stored a sixth row
C9_Witness ==
    \E k, m \in 1..Len(responses) :
        /\ k < m
        /\ responses[k].fn = "send-otp" /\ responses[k].status = 429
        /\ Cardinality({j \in 1..(k - 1) : responses[j].status \in {200, 500}}) = 5
        /\ responses[m].fn = "send-otp" /\ responses[m].status \in {200, 500}
        /\ Len(otp_requests) = 6

\* C10: under any interleaving of issuance requests no 60-minute window
\* contains more than 5 OtpRequest rows created for one voter.
C10_WindowHoldsFive ==
    \A i \in 1..Len(otp_requests) :
        Cardinality(RowsInWindow(otp_requests[i].user_id,
                                 otp_requests[i].created_at)) <= 5

\* send-otp calls that passed the rate limit and were answered, as indices
\* into responses
Dispatched ==
    {k \in 1..Len(responses) :
        responses[k].fn = "send-otp" /\ responses[k].status \notin {400, 429}}

\* C14: a send-otp call that passes the rate limit returns success if and only
\* if at least one requested channel (email for email/both with an address
\* given, SMS for sms/both with a phone given) reported delivery, and fails with
\* DeliveryFailed otherwise; the flags of the response equal the per-channel
\* outcomes, a channel not requested or without address being reported false.
C14_DeliveryResult ==
    \A k \in Dispatched :
        LET r == responses[k]
            d == r.delivery
            emailDelivered ==
                d.channel \in {"email", "both"} /\ d.email # "" /\ d.emailOk
            smsDelivered ==
                d.channel \in {"sms", "both"} /\ d.phone # "" /\ d.smsOk
        IN /\ r.status = 200 <=> (emailDelivered \/ smsDelivered)
           /\ r.status # 200 => (r.status = 500 /\ r.body = "Failed to send OTP")
           /\ r.email = emailDelivered
           /\ r.sms = smsDelivered

\* both channels were requested with both addresses, the email was delivered
\* and the SMS was not: success, reported per channel; and a call by email
\* without an address failed although the provider was up
C14_Witness ==
    /\ \E k \in Dispatched :
           /\ responses[k].delivery.channel = "both"
           /\ responses[k].delivery.email # "" /\ responses[k].delivery.phone # ""
           /\ responses[k].delivery.emailOk /\ ~responses[k].delivery.smsOk
           /\ responses[k].status = 200 /\ responses[k].email /\ ~responses[k].sms
    /\ \E k \in Dispatched :
           /\ responses[k].delivery.channel = "email"
           /\ responses[k].delivery.email = "" /\ responses[k].delivery.emailOk
           /\ responses[k].status = 500

C17_VerifiedOnlyByOtp ==
    \A u \in Voters :
        profiles[u] => \E i \in RowsOf(u) : otp_requests[i].verified

\* the lookup of the receipt page of session s returns in this step
ReceiptLookupStep(s) ==
    /\ receipts[s].open /\ receipts[s].isLoading
    /\ receipts[s].ballotToken # "null"
    /\ receipts'[s] # receipts[s]

\* C18: receipt retrieval for (voter, election, token) shows a receipt if and
\* only if a Vote row exists whose user_id, election_id and ballot_token all
\* equal the presented values, and the receipt is that of this row; if any one
\* differs the result is NotFound and no vote data is shown.
C18_ReceiptNeedsAllThree ==
    [][\A s \in Sessions :
          ReceiptLookupStep(s) =>
              LET pg == receipts[s]
                  rows == {i \in 1..Len(votes) :
                              /\ votes[i].user_id = pg.user
                              /\ votes[i].election_id = pg.electionId
                              /\ votes[i].ballot_token = pg.ballotToken}
              IN IF rows # {}
                 THEN /\ receipts'[s].open /\ ~receipts'[s].isLoading
                      /\ Len(receipts'[s].voteDetails) = 1
                      /\ \E i \in rows :
                             /\ receipts'[s].voteDetails[1].ballot_token
                                    = votes[i].ballot_token
                             /\ receipts'[s].voteDetails[1].candidate_name
                                    = votes[i].candidate_id
                             /\ receipts'[s].voteDetails[1].election_title
                                    = votes[i].election_id
                 ELSE /\ ~receipts'[s].open
                      /\ receipts'[s].toast = "Vote not found"
                      /\ receipts'[s].voteDetails = <<>>]_vars

\* a receipt is shown to a voter who has one Vote in each election, and
\* another voter who presented a stored token was refused
C18_Witness ==
    \E s \in Sessions :
        /\ receipts[s].open /\ Len(receipts[s].voteDetails) = 1
        /\ \E i, j \in 1..Len(votes) :
               /\ i # j
               /\ votes[i].user_id = receipts[s].user
               /\ votes[i].election_id = receipts[s].electionId
               /\ votes[i].ballot_token = receipts[s].ballotToken
               /\ votes[j].user_id = receipts[s].user

\* C19: every Vote row's candidate belongs to the row's election in every
\* reachable state; a cast whose candidate does not belong to the election
\* inserts nothing.
C19_CandidateBelongs ==
    \A i \in 1..Len(votes) : candidates[votes[i].candidate_id] = votes[i].election_id

(***************************************************************************)
(* Properties of the stored votes and of the audit log (SpecJourney)       *)
(***************************************************************************)
\* the insert of the cast of session s returns in this step
CastReturns(s) == pages[s].isSubmitting /\ ~pages'[s].isSubmitting

\* C21: a successful cast persists exactly one Vote row, whose ballot_token is
\* the token returned to the voter, and a Vote row, once stored, has none of
\* its fields changed and is not deleted by any later cast, verification,
\* issuance or receipt operation.
C21_VoteStoredOnceAndKept ==
    [][/\ Len(votes') >= Len(votes)
       /\ Len(votes') <= Len(votes) + 1
       /\ SubSeq(votes', 1, Len(votes)) = votes
       /\ Len(votes') > Len(votes)
              => \E s \in Sessions : CastReturns(s) /\ pages'[s].outcome = "receipt"
       /\ \A s \in Sessions :
              CastReturns(s) =>
                  IF pages'[s].outcome = "receipt"
                  THEN /\ Len(votes') = Len(votes) + 1
                       /\ votes'[Len(votes')].ballot_token = pages'[s].ballotToken
                       /\ votes'[Len(votes')].user_id = pages[s].user
                       /\ votes'[Len(votes')].election_id = pages[s].electionId
                       /\ votes'[Len(votes')].candidate_id = pages[s].selectedCandidate
                  ELSE votes' = votes]_vars

\* the voter cast in both elections, verified a passcode, and the receipt of
\* the first Vote is on screen
C21_Witness ==
    /\ Len(votes) = 2
    /\ \E k \in 1..Len(responses) :
           responses[k].fn = "verify-otp" /\ responses[k].status = 200
    /\ \E s \in Sessions :
           /\ receipts[s].open /\ Len(receipts[s].voteDetails) = 1
           /\ receipts[s].voteDetails[1].ballot_token = votes[1].ballot_token
           /\ receipts[s].voteDetails[1].candidate_name = votes[1].candidate_id

\* C22: the audit log is append-only: across every step of issuance,
\* verification and casting the sequence of existing audit entries is a prefix
\* of the sequence after the step.
C22_AuditAppendOnly ==
    [][/\ Len(audit_logs') >= Len(audit_logs)
       /\ SubSeq(audit_logs', 1, Len(audit_logs)) = audit_logs]_vars

\* the log holds the entries of an issuance and of a verification, in that
\* order, and a Vote has been cast since
C22_Witness ==
    /\ Len(audit_logs) = 2
    /\ audit_logs[1].event_type = "otp_sent"
    /\ audit_logs[2].event_type \in {"otp_verified", "otp_failed"}
    /\ Len(votes) >= 1

====
